---- MODULE Spec2Model ----
(***************************************************************************)
(* A model of nimue's prover state Merlin (nimue/src/merlin.rs), of the    *)
(* sponge-only Merlin (src/merlin.rs), and of the SAFE / IOPattern /       *)
(* Arthur layers they drive.                                               *)
(*                                                                         *)
(* A duplex sponge is modelled by the history of the operations applied to *)
(* it, with consecutive absorbs (and consecutive squeezes) streamed into   *)
(* one token: two sponges that are equal here went through the same byte   *)
(* stream, so they are equal for every permutation.                        *)
(***************************************************************************)
EXTENDS Integers, Sequences, FiniteSets, TLC

\* ------------------------------------------------------------------ bounds

\* Builder calls used to declare an IO pattern.
MaxPatternOps == 3
\* Successful operations (SAFE operations and RNG draws) of one prover run.
MaxCalls == 2

\* ------------------------------------------------------------------ state

VARIABLES
    io,        \* the ops of the IO pattern everything is built from
    variant,   \* which Merlin runs: "prover" (nimue/src/merlin.rs) or "native" (src/merlin.rs)
    merlin,    \* the prover state: [rng, safe, transcript]
    native,    \* the sponge-only Merlin: [safe]
    arthur,    \* the verifier state: [safe, transcript, cursor]
    phase,     \* "prove", then "verify" once the transcript went to an Arthur
    call,      \* the last call: its name and the length of its argument
    ret,       \* the last call's result
    out,       \* the last call's output (challenge units, RNG bytes, units read)
    plog,      \* the prover's successful SAFE calls, each with the SAFE it left
    draws,     \* the number of RNG draws so far
    dlog,      \* the RNG draws so far, each with its output and its place among the logged calls
    rngFed,    \* the bytes Merlin's writer fed to the CSPRNG sponge so far
    vpos,      \* the number of logged prover calls the verifier has mirrored
    schnorr,   \* the Schnorr example: statement, secrets, messages and the position in main
    swap       \* the swap_field call: the two moduli, the element and the result

vars == <<io, variant, merlin, native, arthur, phase, call, ret, out, plog, draws, dlog, rngFed, vpos, schnorr, swap>>

\* What the Merlin and Arthur operations leave alone.
examples == <<schnorr, swap>>

\* ------------------------------------------------------- the Unit contract

\* The sponge alphabet U is a prime field: a unit is a value below Modulus,
\* written as UnitSize little-endian bytes.
Modulus == 2
UnitSize == 2
ByteRange == 256

Units == 0 .. (Modulus - 1)

RECURSIVE Flatten(_)
Flatten(ss) == IF ss = <<>> THEN <<>> ELSE Head(ss) \o Flatten(Tail(ss))

\* The little-endian bytes of one unit.
UnitBytes(u) == [i \in 1 .. UnitSize |-> (u \div (ByteRange ^ (i - 1))) % ByteRange]

\* U::write(units, &mut bytes): the bytes appended for a slice of units.
UnitWrite(units) == Flatten([i \in 1 .. Len(units) |-> UnitBytes(units[i])])

\* The slices of units passed to add_units / public_units / absorb_native.
Inputs == {<<>>, <<0>>, <<1>>, <<1, 0>>}

\* All sequences over S of length at most n.
RECURSIVE SeqsUpTo(_, _)
SeqsUpTo(S, n) ==
    IF n = 0 THEN {<<>>}
    ELSE LET shorter == SeqsUpTo(S, n - 1)
         IN  shorter \cup {Append(s, x) : s \in {t \in shorter : Len(t) = n - 1}, x \in S}

\* ------------------------------------------------- the DuplexSponge contract

\* H::default(): the sponge nothing was applied to.
SpongeDefault == <<>>

LastOp(sp) == IF sp = <<>> THEN "none" ELSE sp[Len(sp)].op

ButLast(sp) == SubSeq(sp, 1, Len(sp) - 1)

absorb_unchecked(sp, xs) ==
    IF xs = <<>> THEN sp
    ELSE IF LastOp(sp) = "absorb"
         THEN Append(ButLast(sp), [op |-> "absorb", data |-> sp[Len(sp)].data \o xs])
         ELSE Append(sp, [op |-> "absorb", data |-> xs])

squeeze_unchecked(sp, n) ==
    IF n = 0 THEN sp
    ELSE IF LastOp(sp) = "squeeze"
         THEN Append(ButLast(sp), [op |-> "squeeze", data |-> <<sp[Len(sp)].data[1] + n>>])
         ELSE Append(sp, [op |-> "squeeze", data |-> <<n>>])

ratchet_unchecked(sp) == Append(sp, [op |-> "ratchet", data |-> <<>>])

DigestPrime == 65521

\* A position-weighted sum of xs[lo .. hi], by halving.
RECURSIVE WeighedSum(_, _, _)
WeighedSum(xs, lo, hi) ==
    IF lo > hi THEN 0
    ELSE IF lo = hi THEN ((xs[lo] + 1) * (lo + 7)) % DigestPrime
    ELSE LET mid == (lo + hi) \div 2
         IN  (WeighedSum(xs, lo, mid) + WeighedSum(xs, mid + 1, hi)) % DigestPrime

OpCode(op) == CASE op = "absorb" -> 1 [] op = "squeeze" -> 2 [] OTHER -> 3

\* The digest of a sponge state: a function of its whole history.
Digest(sp) ==
    WeighedSum([j \in 1 .. Len(sp) |->
                   (OpCode(sp[j].op) * 251 + WeighedSum(sp[j].data, 1, Len(sp[j].data))) % DigestPrime],
               1, Len(sp))

\* The units a squeeze of n writes: unit k of the output stream that follows
\* the absorbed history, reduced to the sponge's alphabet of `range` symbols.
SqueezeOutput(sp, n, range) ==
    LET streaming == LastOp(sp) = "squeeze"
        base == IF streaming THEN ButLast(sp) ELSE sp
        done == IF streaming THEN sp[Len(sp)].data[1] ELSE 0
        digest == Digest(base)
    IN  [i \in 1 .. n |-> ((((digest + 13) * (2 * (done + i) + 1)) % DigestPrime) \div 8) % range]

\* ------------------------------------------------------------- IO pattern

SEP == 0
TagAbsorb == 65
TagSqueeze == 83
TagRatchet == 82
AsciiZero == 48
DomSep == 110

RECURSIVE Decimal(_)
Decimal(n) == IF n < 10 THEN <<AsciiZero + n>> ELSE Append(Decimal(n \div 10), AsciiZero + (n % 10))

Absorb(n) == [kind |-> "Absorb", n |-> n]
Squeeze(n) == [kind |-> "Squeeze", n |-> n]
Ratchet == [kind |-> "Ratchet", n |-> 0]

\* IOPattern::absorb / squeeze / ratchet: append an op, merging it into a
\* preceding op of the same kind (Ratchet never merges).
IOAppend(ops, op) ==
    IF ops # <<>> /\ op.kind # "Ratchet" /\ ops[Len(ops)].kind = op.kind
    THEN Append(ButLast(ops), [kind |-> op.kind, n |-> ops[Len(ops)].n + op.n])
    ELSE Append(ops, op)

RECURSIVE IOBuild(_)
IOBuild(calls) ==
    IF calls = <<>> THEN <<>> ELSE IOAppend(IOBuild(ButLast(calls)), calls[Len(calls)])

OpBytes(op) ==
    CASE op.kind = "Absorb" -> <<TagAbsorb>> \o Decimal(op.n)
      [] op.kind = "Squeeze" -> <<TagSqueeze>> \o Decimal(op.n)
      [] OTHER -> <<TagRatchet>>

\* IOPattern::as_bytes
as_bytes(ops) == <<DomSep>> \o Flatten([i \in 1 .. Len(ops) |-> <<SEP>> \o OpBytes(ops[i])])

BuilderCalls == {Absorb(1), Squeeze(1), Ratchet}

Patterns == {IOBuild(calls) : calls \in SeqsUpTo(BuilderCalls, MaxPatternOps)}

\* ------------------------------------------------------------------- SAFE

Safe_new(ops) ==
    [sponge |-> ratchet_unchecked(absorb_unchecked(SpongeDefault, as_bytes(ops))),
     stack |-> ops]

\* A rejected operation leaves the SAFE in an unspecified state: the stack
\* is either left as it was or cleared.
Rejected(s) == {[safe |-> [s EXCEPT !.stack = st], res |-> "InvalidIO", out |-> <<>>] : st \in {s.stack, <<>>}}

HeadIs(s, kind) == s.stack # <<>> /\ Head(s.stack).kind = kind

Consume(stack, n) ==
    IF Head(stack).n > n
    THEN <<[kind |-> Head(stack).kind, n |-> Head(stack).n - n]>> \o Tail(stack)
    ELSE Tail(stack)

Safe_absorb(s, input) ==
    IF HeadIs(s, "Absorb") /\ Head(s.stack).n >= Len(input)
    THEN {[safe |-> [sponge |-> absorb_unchecked(s.sponge, input),
                     stack |-> Consume(s.stack, Len(input))],
           res |-> "Ok", out |-> <<>>]}
    ELSE Rejected(s)

Safe_squeeze(s, n) ==
    IF HeadIs(s, "Squeeze") /\ Head(s.stack).n >= n
    THEN {[safe |-> [sponge |-> squeeze_unchecked(s.sponge, n),
                     stack |-> Consume(s.stack, n)],
           res |-> "Ok", out |-> SqueezeOutput(s.sponge, n, Modulus)]}
    ELSE Rejected(s)

Safe_ratchet(s) ==
    IF HeadIs(s, "Ratchet")
    THEN {[safe |-> [sponge |-> ratchet_unchecked(s.sponge), stack |-> Tail(s.stack)],
           res |-> "Ok", out |-> <<>>]}
    ELSE Rejected(s)

\* -------------------------------------------------------------- ProverRng

\* fill_bytes seeds at most this many bytes from the CSRNG.
SeedLen == 32

Min(a, b) == IF a < b THEN a ELSE b

\* The CSRNG R is a byte stream fixed by its seed; `pos` bytes were drawn.
OsByte(seed, i) == (seed * 97 + i * 13 + 5) % ByteRange

csrng_fill_bytes(c, n) ==
    [csrng |-> [c EXCEPT !.pos = c.pos + n],
     bytes |-> [i \in 1 .. n |-> OsByte(c.seed, c.pos + i)]]

\* fill_bytes seeding the whole destination, however long, from the CSRNG.
fill_bytes_seeds_all(r, destLen) ==
    LET drawn == csrng_fill_bytes(r.csrng, destLen)
        seeded == absorb_unchecked(r.sponge, drawn.bytes)
        squeezed == squeeze_unchecked(seeded, destLen)
    IN  [rng |-> [sponge |-> ratchet_unchecked(squeezed), csrng |-> drawn.csrng],
         out |-> SqueezeOutput(seeded, destLen, ByteRange)]

\* fill_bytes seeding, besides the CSRNG bytes, from a process-wide counter.
fill_bytes_ambient(r, destLen) ==
    LET len == Min(destLen, SeedLen)
        drawn == csrng_fill_bytes(r.csrng, len)
        seeded == absorb_unchecked(r.sponge, drawn.bytes \o <<draws>>)
        squeezed == squeeze_unchecked(seeded, destLen)
    IN  [rng |-> [sponge |-> ratchet_unchecked(squeezed), csrng |-> drawn.csrng],
         out |-> SqueezeOutput(seeded, destLen, ByteRange)]

\* ProverRng::fill_bytes on a destination of destLen bytes.
fill_bytes(r, destLen) ==
    LET len == Min(destLen, SeedLen)
        drawn == csrng_fill_bytes(r.csrng, len)
        seeded == absorb_unchecked(r.sponge, drawn.bytes)
        squeezed == squeeze_unchecked(seeded, destLen)
    IN  [rng |-> [sponge |-> ratchet_unchecked(squeezed), csrng |-> drawn.csrng],
         out |-> SqueezeOutput(seeded, destLen, ByteRange)]

\* ProverRng::try_fill_bytes
try_fill_bytes(r, destLen) ==
    [rng |-> [r EXCEPT !.sponge = squeeze_unchecked(r.sponge, destLen)],
     out |-> SqueezeOutput(r.sponge, destLen, ByteRange)]

U32Bytes == 4
U64Bytes == 8

\* ProverRng::next_u32 / next_u64: fill_bytes on a 4- / 8-byte buffer. The
\* integer returned is from_le_bytes(buf), one-to-one with buf: the output
\* is kept as its little-endian bytes.
next_u32(r) == fill_bytes(r, U32Bytes)

next_u64(r) == fill_bytes(r, U64Bytes)

\* ----------------------------------------- Merlin, the prover state

Merlin_new(ops, csrng) ==
    [rng |-> [sponge |-> absorb_unchecked(SpongeDefault, as_bytes(ops)), csrng |-> csrng],
     safe |-> Safe_new(ops),
     transcript |-> <<>>]

\* One add_units outcome after the SAFE outcome o; `from` is the transcript
\* length (old_len) from which the written bytes are fed to the CSPRNG.
Added(m, input, o, from) ==
    LET written == m.transcript \o UnitWrite(input)
        fresh == SubSeq(written, from + 1, Len(written))
    IN  [m |-> [rng |-> [m.rng EXCEPT !.sponge = absorb_unchecked(m.rng.sponge, fresh)],
                safe |-> o.safe,
                transcript |-> written],
         res |-> o.res, out |-> <<>>, fed |-> fresh]

\* add_units going on after the SAFE's error: it writes and returns Ok.
add_units_unchecked(m, input) ==
    {[Added(m, input, o, Len(m.transcript)) EXCEPT !.res = "Ok"] : o \in Safe_absorb(m.safe, input)}

\* add_units writing the input and feeding the CSPRNG before it asks the SAFE.
add_units_writes_first(m, input) ==
    {Added(m, input, o, Len(m.transcript)) : o \in Safe_absorb(m.safe, input)}

\* add_units feeding the CSPRNG the whole transcript, not the bytes it added.
add_units_feeds_transcript(m, input) ==
    {IF o.res # "Ok"
     THEN [m |-> [m EXCEPT !.safe = o.safe], res |-> o.res, out |-> <<>>, fed |-> <<>>]
     ELSE Added(m, input, o, 0)
     : o \in Safe_absorb(m.safe, input)}

\* add_units framing what it writes with the number of units.
add_units_framed(m, input) ==
    {IF o.res # "Ok"
     THEN [m |-> [m EXCEPT !.safe = o.safe], res |-> o.res, out |-> <<>>, fed |-> <<>>]
     ELSE Added([m EXCEPT !.transcript = @ \o <<Len(input)>>], input, o, Len(m.transcript))
     : o \in Safe_absorb(m.safe, input)}

\* Merlin::add_units: the outcomes of the call (the merlin it leaves, its
\* result, and the bytes it fed to the CSPRNG sponge).
add_units(m, input) ==
    LET old_len == Len(m.transcript)
    IN  {IF o.res # "Ok"
         THEN [m |-> [m EXCEPT !.safe = o.safe], res |-> o.res, out |-> <<>>, fed |-> <<>>]
         ELSE Added(m, input, o, old_len)
         : o \in Safe_absorb(m.safe, input)}

\* Vec::truncate
Truncate(v, len) == SubSeq(v, 1, Min(len, Len(v)))

\* public_units leaving the public bytes in the transcript.
public_units_keeps(m, input) == add_units(m, input)

\* public_units truncating the transcript to nothing.
public_units_clears(m, input) ==
    {IF o.res # "Ok" THEN o ELSE [o EXCEPT !.m.transcript = <<>>] : o \in add_units(m, input)}

\* Merlin::public_units
public_units(m, input) ==
    LET len == Len(m.transcript)
    IN  {IF o.res # "Ok" THEN o
         ELSE [o EXCEPT !.m.transcript = Truncate(o.m.transcript, len)]
         : o \in add_units(m, input)}

\* fill_challenge_units appending the challenge to the transcript.
fill_challenge_units_written(m, n) ==
    {[m |-> [m EXCEPT !.safe = o.safe, !.transcript = m.transcript \o UnitWrite(o.out)],
      res |-> o.res, out |-> o.out, fed |-> <<>>]
     : o \in Safe_squeeze(m.safe, n)}

\* fill_challenge_units answering from the CSPRNG sponge instead of the SAFE's.
fill_challenge_units_from_rng(m, n) ==
    {[m |-> [m EXCEPT !.safe = o.safe], res |-> o.res,
      out |-> IF o.res = "Ok" THEN SqueezeOutput(m.rng.sponge, n, Modulus) ELSE <<>>,
      fed |-> <<>>]
     : o \in Safe_squeeze(m.safe, n)}

\* Merlin::fill_challenge_units
fill_challenge_units(m, n) ==
    {[m |-> [m EXCEPT !.safe = o.safe], res |-> o.res, out |-> o.out, fed |-> <<>>]
     : o \in Safe_squeeze(m.safe, n)}

\* ratchet dropping the SAFE's error.
ratchet_swallows_error(m) ==
    {[m |-> [m EXCEPT !.safe = o.safe], res |-> "Ok", out |-> <<>>, fed |-> <<>>]
     : o \in Safe_ratchet(m.safe)}

\* ratchet ratcheting the CSPRNG sponge along with the SAFE.
ratchet_both(m) ==
    {[m |-> [m EXCEPT !.safe = o.safe, !.rng.sponge = ratchet_unchecked(@)],
      res |-> o.res, out |-> <<>>, fed |-> <<>>]
     : o \in Safe_ratchet(m.safe)}

\* Merlin::ratchet
ratchet(m) ==
    {[m |-> [m EXCEPT !.safe = o.safe], res |-> o.res, out |-> <<>>, fed |-> <<>>]
     : o \in Safe_ratchet(m.safe)}

\* -------------------------------- Merlin, the sponge-only variant (src/merlin.rs)

\* Merlin::new
Native_new(ops) == [safe |-> Safe_new(ops)]

\* absorb_native handing the input to the SAFE twice.
absorb_native_twice(m, input) ==
    {[m |-> [safe |-> o2.safe], res |-> o2.res, out |-> o2.out]
     : o2 \in UNION {Safe_absorb(o1.safe, input) : o1 \in Safe_absorb(m.safe, input)}}

\* Merlin::absorb_native
absorb_native(m, input) ==
    {[m |-> [safe |-> o.safe], res |-> o.res, out |-> o.out] : o \in Safe_absorb(m.safe, input)}

\* Merlin::squeeze_native
squeeze_native(m, n) ==
    {[m |-> [safe |-> o.safe], res |-> o.res, out |-> o.out] : o \in Safe_squeeze(m.safe, n)}

\* Merlin::ratchet
native_ratchet(m) ==
    {[m |-> [safe |-> o.safe], res |-> o.res, out |-> o.out] : o \in Safe_ratchet(m.safe)}

\* ------------------------------------------------ Arthur, the verifier state

Arthur_new(ops, proof) == [safe |-> Safe_new(ops), transcript |-> proof, cursor |-> 0]

\* U::read of one unit: the value of its little-endian bytes.
RECURSIVE UnitValue(_)
UnitValue(bytes) == IF bytes = <<>> THEN 0 ELSE Head(bytes) + ByteRange * UnitValue(Tail(bytes))

ArthurFails(a, res) == {[a |-> a, res |-> res, out |-> <<>>]}

\* Arthur::fill_next_units for n units.
fill_next_units(a, n) ==
    LET want == n * UnitSize
        bytes == SubSeq(a.transcript, a.cursor + 1, a.cursor + want)
        units == [i \in 1 .. n |-> UnitValue(SubSeq(bytes, (i - 1) * UnitSize + 1, i * UnitSize))]
    IN  IF ~(HeadIs(a.safe, "Absorb") /\ Head(a.safe.stack).n >= n)
        THEN {[a |-> [a EXCEPT !.safe = o.safe], res |-> o.res, out |-> <<>>] : o \in Rejected(a.safe)}
        ELSE IF a.cursor + want > Len(a.transcript) THEN ArthurFails(a, "InvalidProof")
        ELSE IF \E i \in 1 .. n : units[i] >= Modulus THEN ArthurFails(a, "SerializationError")
        ELSE {[a |-> [a EXCEPT !.safe = o.safe, !.cursor = a.cursor + want],
               res |-> o.res, out |-> units]
              : o \in Safe_absorb(a.safe, units)}

arthur_public_units(a, input) ==
    {[a |-> [a EXCEPT !.safe = o.safe], res |-> o.res, out |-> <<>>] : o \in Safe_absorb(a.safe, input)}

arthur_fill_challenge_units(a, n) ==
    {[a |-> [a EXCEPT !.safe = o.safe], res |-> o.res, out |-> o.out] : o \in Safe_squeeze(a.safe, n)}

arthur_ratchet(a) ==
    {[a |-> [a EXCEPT !.safe = o.safe], res |-> o.res, out |-> <<>>] : o \in Safe_ratchet(a.safe)}

\* ---------------------------------------------------------------- actions

OsSeeds == {0, 1}
DestLens == {0, 33}
TryLens == {2}
SqueezeLens == {0, 1, 2}

\* The state after construction, for the given Merlin variants and CSRNG seeds.
InitWith(variants, seeds) ==
    /\ io \in Patterns
    /\ variant \in variants
    /\ \E seed \in seeds :
         /\ variant = "native" => seed = 0
         /\ merlin = Merlin_new(io, [seed |-> seed, pos |-> 0])
    /\ native = Native_new(io)
    /\ arthur = Arthur_new(io, <<>>)
    /\ phase = "prove"
    /\ call = [name |-> "new", len |-> 0]
    /\ ret = "Ok"
    /\ out = <<>>
    /\ plog = <<>>
    /\ draws = 0
    /\ dlog = <<>>
    /\ rngFed = <<>>
    /\ vpos = 0
    /\ schnorr = [pc |-> "idle"]
    /\ swap = [pc |-> "idle"]

Init == InitWith({"prover", "native"}, {0})

InitRng == InitWith({"prover"}, OsSeeds)

ProverCanCall == phase = "prove" /\ variant = "prover" /\ Len(plog) + draws < MaxCalls

LogEntry(name, input, n, o) == [name |-> name, input |-> input, n |-> n, safe |-> o.m.safe, out |-> o.out]

\* One Merlin call with outcome o.
MerlinCall(name, input, n, o) ==
    /\ ProverCanCall
    /\ merlin' = o.m
    /\ call' = [name |-> name, len |-> n]
    /\ ret' = o.res
    /\ out' = o.out
    /\ plog' = IF o.res = "Ok" THEN Append(plog, LogEntry(name, input, n, o)) ELSE plog
    /\ rngFed' = rngFed \o o.fed
    /\ UNCHANGED <<io, variant, native, arthur, phase, draws, dlog, vpos, examples>>

AddUnits == \E input \in Inputs : \E o \in add_units(merlin, input) :
    MerlinCall("add_units", input, Len(input), o)

PublicUnits == \E input \in Inputs : \E o \in public_units(merlin, input) :
    MerlinCall("public_units", input, Len(input), o)

FillChallengeUnits == \E n \in SqueezeLens : \E o \in fill_challenge_units(merlin, n) :
    MerlinCall("fill_challenge_units", <<>>, n, o)

MerlinRatchet == \E o \in ratchet(merlin) : MerlinCall("ratchet", <<>>, 0, o)

\* A draw that takes an op off the SAFE stack, as the SAFE operations do.
RngCall_through_safe(name, n, d) ==
    /\ ProverCanCall
    /\ merlin' = [merlin EXCEPT !.rng = d.rng,
                                !.safe.stack = IF @ = <<>> THEN @ ELSE Tail(@)]
    /\ call' = [name |-> name, len |-> n]
    /\ ret' = "Ok"
    /\ out' = d.out
    /\ draws' = draws + 1
    /\ dlog' = Append(dlog, [name |-> name, len |-> n, out |-> d.out, at |-> Len(plog)])
    /\ UNCHANGED <<io, variant, native, arthur, phase, plog, rngFed, vpos, examples>>

\* Merlin::rng, then one draw d on the handle it returns.
RngCall(name, n, d) ==
    /\ ProverCanCall
    /\ merlin' = [merlin EXCEPT !.rng = d.rng]
    /\ call' = [name |-> name, len |-> n]
    /\ ret' = "Ok"
    /\ out' = d.out
    /\ draws' = draws + 1
    /\ dlog' = Append(dlog, [name |-> name, len |-> n, out |-> d.out, at |-> Len(plog)])
    /\ UNCHANGED <<io, variant, native, arthur, phase, plog, rngFed, vpos, examples>>

RngFillBytes == \E n \in DestLens : RngCall("fill_bytes", n, fill_bytes(merlin.rng, n))

RngTryFillBytes == \E n \in TryLens : RngCall("try_fill_bytes", n, try_fill_bytes(merlin.rng, n))

RngNextU32 == RngCall("next_u32", U32Bytes, next_u32(merlin.rng))

RngNextU64 == RngCall("next_u64", U64Bytes, next_u64(merlin.rng))

\* One call on the sponge-only Merlin with outcome o.
NativeCall(name, n, o) ==
    /\ phase = "prove" /\ variant = "native"
    /\ native' = o.m
    /\ call' = [name |-> name, len |-> n]
    /\ ret' = o.res
    /\ out' = o.out
    /\ UNCHANGED <<io, variant, merlin, arthur, phase, plog, draws, dlog, rngFed, vpos, examples>>

AbsorbNative == \E input \in Inputs : \E o \in absorb_native(native, input) :
    NativeCall("absorb_native", Len(input), o)

SqueezeNative == \E n \in SqueezeLens : \E o \in squeeze_native(native, n) :
    NativeCall("squeeze_native", n, o)

NativeRatchet == \E o \in native_ratchet(native) : NativeCall("native_ratchet", 0, o)

\* io.to_arthur(merlin.transcript()): the verifier is built over the proof.
ToArthur ==
    /\ phase = "prove" /\ variant = "prover"
    /\ phase' = "verify"
    /\ arthur' = Arthur_new(io, merlin.transcript)
    /\ call' = [name |-> "to_arthur", len |-> Len(merlin.transcript)]
    /\ ret' = "Ok"
    /\ out' = <<>>
    /\ vpos' = 0
    /\ UNCHANGED <<io, variant, merlin, native, plog, draws, dlog, rngFed, examples>>

\* The verifier mirrors the prover's next logged call with outcome o.
ArthurCall(name, n, o) ==
    /\ arthur' = o.a
    /\ call' = [name |-> name, len |-> n]
    /\ ret' = o.res
    /\ out' = o.out
    /\ vpos' = vpos + 1
    /\ UNCHANGED <<io, variant, merlin, native, phase, plog, draws, dlog, rngFed, examples>>

Mirrors(name) == phase = "verify" /\ vpos < Len(plog) /\ plog[vpos + 1].name = name

ArthurFillNextUnits ==
    /\ Mirrors("add_units")
    /\ \E o \in fill_next_units(arthur, plog[vpos + 1].n) :
         ArthurCall("arthur.fill_next_units", plog[vpos + 1].n, o)

ArthurPublicUnits ==
    /\ Mirrors("public_units")
    /\ \E o \in arthur_public_units(arthur, plog[vpos + 1].input) :
         ArthurCall("arthur.public_units", plog[vpos + 1].n, o)

ArthurFillChallengeUnits ==
    /\ Mirrors("fill_challenge_units")
    /\ \E o \in arthur_fill_challenge_units(arthur, plog[vpos + 1].n) :
         ArthurCall("arthur.fill_challenge_units", plog[vpos + 1].n, o)

ArthurRatchet ==
    /\ Mirrors("ratchet")
    /\ \E o \in arthur_ratchet(arthur) : ArthurCall("arthur.ratchet", 0, o)

SafeNext ==
    \/ AddUnits
    \/ PublicUnits
    \/ FillChallengeUnits
    \/ MerlinRatchet

NativeNext ==
    \/ AbsorbNative
    \/ SqueezeNative
    \/ NativeRatchet

Next ==
    \/ SafeNext
    \/ RngFillBytes
    \/ RngTryFillBytes
    \/ NativeNext

\* The runs of either Merlin, failing calls included.
Spec == Init /\ [][Next]_vars

RngNext ==
    \/ RngFillBytes
    \/ RngTryFillBytes
    \/ RngNextU32
    \/ RngNextU64
    \/ AddUnits

\* The prover's draws on rng(), between add_units calls.
SpecRng == InitRng /\ [][RngNext]_vars

\* The prover runs in which every operation succeeds, each followed by a
\* verifier that mirrors it over the transcript it produced.
VerifyNext ==
    \/ (SafeNext /\ ret' = "Ok")
    \/ RngFillBytes
    \/ RngTryFillBytes
    \/ ToArthur
    \/ ArthurFillNextUnits
    \/ ArthurPublicUnits
    \/ ArthurFillChallengeUnits
    \/ ArthurRatchet

SpecVerify == Init /\ [][VerifyNext]_vars

InitDraws == InitWith({"prover"}, {1})

\* The prover runs in which every SAFE operation succeeds, with every kind of
\* draw on rng() in between.
DrawsNext ==
    \/ (SafeNext /\ ret' = "Ok")
    \/ RngFillBytes
    \/ RngTryFillBytes
    \/ RngNextU32
    \/ RngNextU64

SpecDraws == InitDraws /\ [][DrawsNext]_vars

\* ------------------------------------- the Schnorr example (examples/schnorr.rs)

\* The group G is the additive group of integers modulo the prime
\* GroupOrder, its scalar field the integers modulo GroupOrder. A point or a
\* scalar is encoded as PointUnits / ScalarUnits units, least significant
\* first; the encodings of GroupOrder and above are invalid.
GroupOrder == 5
PointUnits == 3
ScalarUnits == 3
ChallengeUnits == 4

RECURSIVE Pow(_, _)
Pow(b, e) == IF e = 0 THEN 1 ELSE b * Pow(b, e - 1)

Encode(v, n) == [i \in 1 .. n |-> (v \div Pow(Modulus, i - 1)) % Modulus]

RECURSIVE Decode(_)
Decode(units) == IF units = <<>> THEN 0 ELSE Head(units) + Modulus * Decode(Tail(units))

\* SchnorrIOPattern::new_schnorr_proof without the ratchet after the statement.
new_schnorr_proof_no_ratchet ==
    IOBuild(<<Absorb(PointUnits), Absorb(PointUnits),
              Absorb(PointUnits), Squeeze(ChallengeUnits), Absorb(ScalarUnits)>>)

\* SchnorrIOPattern::new_schnorr_proof: add_schnorr_statement, add_schnorr_io.
new_schnorr_proof ==
    IOBuild(<<Absorb(PointUnits), Absorb(PointUnits), Ratchet,
              Absorb(PointUnits), Squeeze(ChallengeUnits), Absorb(ScalarUnits)>>)

\* Merlin's public_points / add_points / add_scalars: the encodings of the
\* elements go through public_units / add_units in one call.
public_points(m, points) == public_units(m, Flatten([i \in 1 .. Len(points) |-> Encode(points[i], PointUnits)]))

add_points(m, points) == add_units(m, Flatten([i \in 1 .. Len(points) |-> Encode(points[i], PointUnits)]))

add_scalars(m, scalars) == add_units(m, Flatten([i \in 1 .. Len(scalars) |-> Encode(scalars[i], ScalarUnits)]))

\* challenge_scalars::<1>: the squeezed units, reduced modulo the group order.
challenge_scalars(m) ==
    {[o EXCEPT !.out = IF o.res = "Ok" THEN <<Decode(o.out) % GroupOrder>> ELSE <<>>]
     : o \in fill_challenge_units(m, ChallengeUnits)}

\* G::ScalarField::rand(merlin.rng()): a scalar from eight bytes of the RNG.
RECURSIVE Sum(_)
Sum(xs) == IF xs = <<>> THEN 0 ELSE Head(xs) + Sum(Tail(xs))

rand(r) == LET d == next_u64(r) IN [rng |-> d.rng, out |-> Sum(d.out) % GroupOrder]

\* Arthur's public_points, next_points::<1>, next_scalars::<1> and
\* challenge_scalars::<1>: an element that does not decode is a
\* SerializationError.
arthur_public_points(a, points) ==
    arthur_public_units(a, Flatten([i \in 1 .. Len(points) |-> Encode(points[i], PointUnits)]))

next_element(a, n) ==
    {IF o.res # "Ok" THEN o
     ELSE IF Decode(o.out) >= GroupOrder THEN [o EXCEPT !.res = "SerializationError", !.out = <<>>]
     ELSE [o EXCEPT !.out = <<Decode(o.out)>>]
     : o \in fill_next_units(a, n)}

next_points(a) == next_element(a, PointUnits)

next_scalars(a) == next_element(a, ScalarUnits)

arthur_challenge_scalars(a) ==
    {[o EXCEPT !.out = IF o.res = "Ok" THEN <<Decode(o.out) % GroupOrder>> ELSE <<>>]
     : o \in arthur_fill_challenge_units(a, ChallengeUnits)}

\* The bytes added to a byte of the proof to tamper with it.
TamperDeltas == {1, 2}

\* main, up to the construction of the prover: the group generator P and
\* keygen's secret key x and public key X.
InitSchnorr ==
    /\ io = new_schnorr_proof
    /\ variant = "prover"
    /\ \E seed \in OsSeeds : merlin = Merlin_new(io, [seed |-> seed, pos |-> 0])
    /\ native = Native_new(io)
    /\ arthur = Arthur_new(io, <<>>)
    /\ phase = "prove"
    /\ call = [name |-> "new", len |-> 0]
    /\ ret = "Ok"
    /\ out = <<>>
    /\ plog = <<>>
    /\ draws = 0
    /\ dlog = <<>>
    /\ rngFed = <<>>
    /\ vpos = 0
    /\ \E P \in 1 .. (GroupOrder - 1), x \in 0 .. (GroupOrder - 1) :
         schnorr = [pc |-> "public_points", P |-> P, x |-> x, X |-> (P * x) % GroupOrder,
                    k |-> 0, K |-> 0, c |-> 0, r |-> 0, tampered |-> FALSE,
                    vK |-> 0, vc |-> 0, vr |-> 0, error |-> "none", result |-> "none"]
    /\ swap = [pc |-> "idle"]

\* One line of the example: the call made, the states it leaves, and where
\* main goes on. An Err met by unwrap or expect is a panic.
SchnorrStep(at, name, m, a, o, then) ==
    /\ schnorr.pc = at
    /\ merlin' = m
    /\ arthur' = a
    /\ call' = [name |-> name, len |-> Len(o.out)]
    /\ ret' = o.res
    /\ out' = o.out
    /\ schnorr' = IF o.res = "Ok" THEN then
                  ELSE [schnorr EXCEPT !.pc = "done", !.error = o.res, !.result = "panic"]
    /\ UNCHANGED <<io, variant, native, phase, plog, draws, dlog, rngFed, vpos, swap>>

\* merlin.public_points(&[P, P * x]).unwrap()
MainPublicPoints == \E o \in public_points(merlin, <<schnorr.P, schnorr.X>>) :
    SchnorrStep("public_points", "public_points", o.m, arthur, o,
                [schnorr EXCEPT !.pc = "ratchet"])

\* merlin.ratchet().unwrap()
MainRatchet == \E o \in ratchet(merlin) :
    SchnorrStep("ratchet", "ratchet", o.m, arthur, o, [schnorr EXCEPT !.pc = "rand"])

\* prove: k = rand(merlin.rng()), K = P * k
ProveRand ==
    LET d == rand(merlin.rng)
    IN  SchnorrStep("rand", "rand", [merlin EXCEPT !.rng = d.rng], arthur,
                    [res |-> "Ok", out |-> <<d.out>>],
                    [schnorr EXCEPT !.pc = "add_points", !.k = d.out,
                                    !.K = (schnorr.P * d.out) % GroupOrder])

\* prove: merlin.add_points(&[K])?
ProveAddPoints == \E o \in add_points(merlin, <<schnorr.K>>) :
    SchnorrStep("add_points", "add_points", o.m, arthur, o,
                [schnorr EXCEPT !.pc = "challenge_scalars"])

\* prove: let [c] = merlin.challenge_scalars()?
ProveChallengeScalars == \E o \in challenge_scalars(merlin) :
    SchnorrStep("challenge_scalars", "challenge_scalars", o.m, arthur, o,
                [schnorr EXCEPT !.pc = "add_scalars", !.c = o.out[1],
                                !.r = (schnorr.k + o.out[1] * schnorr.x) % GroupOrder])

\* prove: merlin.add_scalars(&[r])?, and the transcript is the proof
ProveAddScalars == \E o \in add_scalars(merlin, <<schnorr.r>>) :
    SchnorrStep("add_scalars", "add_scalars", o.m, arthur, o,
                [schnorr EXCEPT !.pc = "to_arthur"])

\* main: io.to_arthur(proof)
MainToArthur ==
    SchnorrStep("to_arthur", "to_arthur", merlin, Arthur_new(io, merlin.transcript),
                [res |-> "Ok", out |-> <<>>],
                [schnorr EXCEPT !.pc = "arthur.public_points"])

\* The verifier is given the proof with one byte of K changed.
TamperedToArthur ==
    \E i \in 1 .. (PointUnits * UnitSize), delta \in TamperDeltas :
        LET proof == [merlin.transcript EXCEPT ![i] = (@ + delta) % ByteRange]
        IN  SchnorrStep("to_arthur", "to_arthur", merlin, Arthur_new(io, proof),
                        [res |-> "Ok", out |-> <<>>],
                        [schnorr EXCEPT !.pc = "arthur.public_points", !.tampered = TRUE])

\* main: arthur.public_points(&[P, X]).unwrap()
MainArthurPublicPoints == \E o \in arthur_public_points(arthur, <<schnorr.P, schnorr.X>>) :
    SchnorrStep("arthur.public_points", "arthur.public_points", merlin, o.a, o,
                [schnorr EXCEPT !.pc = "arthur.ratchet"])

\* main: arthur.ratchet().unwrap()
MainArthurRatchet == \E o \in arthur_ratchet(arthur) :
    SchnorrStep("arthur.ratchet", "arthur.ratchet", merlin, o.a, o,
                [schnorr EXCEPT !.pc = "next_points"])

\* verify: let [K] = arthur.next_points().unwrap()
VerifyNextPoints == \E o \in next_points(arthur) :
    SchnorrStep("next_points", "next_points", merlin, o.a, o,
                [schnorr EXCEPT !.pc = "arthur.challenge_scalars", !.vK = o.out[1]])

\* verify: let [c] = arthur.challenge_scalars().unwrap()
VerifyChallengeScalars == \E o \in arthur_challenge_scalars(arthur) :
    SchnorrStep("arthur.challenge_scalars", "arthur.challenge_scalars", merlin, o.a, o,
                [schnorr EXCEPT !.pc = "next_scalars", !.vc = o.out[1]])

\* verify: let [r] = arthur.next_scalars().unwrap()
VerifyNextScalars == \E o \in next_scalars(arthur) :
    SchnorrStep("next_scalars", "next_scalars", merlin, o.a, o,
                [schnorr EXCEPT !.pc = "equation", !.vr = o.out[1]])

\* verify: if P * r == K + X * c { Ok(()) } else { Err(InvalidProof) }
VerifyEquation ==
    LET holds == (schnorr.P * schnorr.vr) % GroupOrder
                   = (schnorr.vK + schnorr.X * schnorr.vc) % GroupOrder
    IN  SchnorrStep("equation", "verify", merlin, arthur, [res |-> "Ok", out |-> <<>>],
                    [schnorr EXCEPT !.pc = "done",
                                    !.result = IF holds THEN "Ok" ELSE "InvalidProof"])

SchnorrNext ==
    \/ MainPublicPoints
    \/ MainRatchet
    \/ ProveRand
    \/ ProveAddPoints
    \/ ProveChallengeScalars
    \/ ProveAddScalars
    \/ MainToArthur
    \/ TamperedToArthur
    \/ MainArthurPublicPoints
    \/ MainArthurRatchet
    \/ VerifyNextPoints
    \/ VerifyChallengeScalars
    \/ VerifyNextScalars
    \/ VerifyEquation

\* The runs of the example's main, with an honest or a tampered proof.
SpecSchnorr == InitSchnorr /\ [][SchnorrNext]_vars

\* ------------------------------------ the Dalek bridge (plugins/dalek/mod.rs)

\* A scalar and a compressed point are 32 bytes each.
ElemBytes == 32

\* Scalar::as_bytes and RistrettoPoint::compress().as_bytes(), for the
\* elements 0 and 1: two encodings that no two elements share.
Scalar_as_bytes(v) == [i \in 1 .. ElemBytes |-> IF i = 1 THEN v ELSE 0]

compress_as_bytes(v) == [i \in 1 .. ElemBytes |-> IF i = ElemBytes THEN v ELSE 0]

\* DalekIO::absorb_scalars / absorb_points on the pattern builder.
io_absorb_scalars(ops, count) == IOAppend(ops, Absorb(count * ElemBytes))

io_absorb_points(ops, count) == IOAppend(ops, Absorb(count * ElemBytes))

\* The outcomes of absorbing the encoded elements one by one, as
\* Iterator::map(..).collect::<Result<(), _>>() does: it stops at the first
\* Err. `done` counts the absorb_native calls made.
RECURSIVE absorb_each(_, _)
absorb_each(m, encoded) ==
    IF encoded = <<>> THEN {[m |-> m, res |-> "Ok", out |-> <<>>, done |-> 0]}
    ELSE UNION {IF o.res # "Ok"
                THEN {[m |-> o.m, res |-> o.res, out |-> <<>>, done |-> 1]}
                ELSE {[r EXCEPT !.done = @ + 1] : r \in absorb_each(o.m, Tail(encoded))}
                : o \in absorb_native(m, Head(encoded))}

\* absorb_scalars taking the elements last to first.
absorb_scalars_reversed(m, scalars) ==
    absorb_each(m, [i \in 1 .. Len(scalars) |-> Scalar_as_bytes(scalars[Len(scalars) + 1 - i])])

\* absorb_scalars absorbing nothing unless the SAFE takes all the elements.
absorb_scalars_atomic(m, scalars) ==
    LET all == absorb_each(m, [i \in 1 .. Len(scalars) |-> Scalar_as_bytes(scalars[i])])
    IN  {IF o.res = "Ok" THEN o ELSE [o EXCEPT !.m = m] : o \in all}

\* DalekBridge::absorb_scalars
absorb_scalars(m, scalars) ==
    absorb_each(m, [i \in 1 .. Len(scalars) |-> Scalar_as_bytes(scalars[i])])

\* DalekBridge::absorb_points
absorb_points(m, points) ==
    absorb_each(m, [i \in 1 .. Len(points) |-> compress_as_bytes(points[i])])

\* The builder calls of the patterns the bridge runs against, and the
\* element slices it is called with.
DalekBuilderCalls == {"absorb_scalars", "absorb_points", "ratchet"}

RECURSIVE DalekBuild(_)
DalekBuild(calls) ==
    IF calls = <<>> THEN <<>>
    ELSE LET ops == DalekBuild(ButLast(calls))
             last == calls[Len(calls)]
         IN  CASE last = "absorb_scalars" -> io_absorb_scalars(ops, 1)
               [] last = "absorb_points" -> io_absorb_points(ops, 1)
               [] OTHER -> IOAppend(ops, Ratchet)

DalekPatterns == {DalekBuild(calls) : calls \in SeqsUpTo(DalekBuilderCalls, MaxPatternOps)}

Elements == SeqsUpTo(Units, MaxPatternOps)

InitDalek ==
    /\ io \in DalekPatterns
    /\ variant = "native"
    /\ merlin = Merlin_new(io, [seed |-> 0, pos |-> 0])
    /\ native = Native_new(io)
    /\ arthur = Arthur_new(io, <<>>)
    /\ phase = "prove"
    /\ call = [name |-> "new", len |-> 0]
    /\ ret = "Ok"
    /\ out = <<>>
    /\ plog = <<>>
    /\ draws = 0
    /\ dlog = <<>>
    /\ rngFed = <<>>
    /\ vpos = 0
    /\ schnorr = [pc |-> "idle"]
    /\ swap = [pc |-> "idle"]

DalekAbsorbScalars == \E scalars \in Elements : \E o \in absorb_scalars(native, scalars) :
    NativeCall("absorb_scalars", Len(scalars), o)

DalekAbsorbPoints == \E points \in Elements : \E o \in absorb_points(native, points) :
    NativeCall("absorb_points", Len(points), o)

DalekNext ==
    \/ DalekAbsorbScalars
    \/ DalekAbsorbPoints
    \/ NativeRatchet

\* The sponge-only Merlin driven through the Dalek bridge.
SpecDalek == InitDalek /\ [][DalekNext]_vars

\* ----------------------------------------- swap_field (plugins/ark/mod.rs)

\* The values of a byte.
ByteBase == 256

\* The moduli of the prime fields F1 and F2 are drawn from: one-byte and
\* two-byte primes, close to each other and far apart.
Moduli == {3, 5, 251, 257, 263}

\* The bytes in the BigInt of a field of modulus p.
RECURSIVE BigIntBytes(_)
BigIntBytes(p) == IF p <= ByteBase THEN 1 ELSE 1 + BigIntBytes((p + ByteBase - 1) \div ByteBase)

\* a.into_bigint().to_bytes_le() for the element of canonical value a.
to_bytes_le(p, a) == [i \in 1 .. BigIntBytes(p) |-> (a \div Pow(ByteBase, i - 1)) % ByteBase]

\* F::from_le_bytes_mod_order: the little-endian integer reduced mod p,
\* accumulated from the most significant byte down.
RECURSIVE from_le_bytes_mod_order(_, _)
from_le_bytes_mod_order(p, bytes) ==
    IF bytes = <<>> THEN 0
    ELSE (from_le_bytes_mod_order(p, Tail(bytes)) * ByteBase + Head(bytes)) % p

\* swap_field without the control conversion back to F1.
swap_field_unchecked(p1, p2, a_f1) ==
    [res |-> "Ok", val |-> from_le_bytes_mod_order(p2, to_bytes_le(p1, a_f1))]

\* swap_field::<F1, F2>(a_f1), F1 and F2 given by their moduli.
swap_field(p1, p2, a_f1) ==
    LET a_f2 == from_le_bytes_mod_order(p2, to_bytes_le(p1, a_f1))
        a_f1_control == from_le_bytes_mod_order(p1, to_bytes_le(p2, a_f2))
    IN  IF a_f1 = a_f1_control
        THEN [res |-> "Ok", val |-> a_f2]
        ELSE [res |-> "SerializationError", val |-> 0]

NoSwap == [res |-> "none", val |-> 0]

InitSwap ==
    /\ io = <<>>
    /\ variant = "native"
    /\ merlin = Merlin_new(io, [seed |-> 0, pos |-> 0])
    /\ native = Native_new(io)
    /\ arthur = Arthur_new(io, <<>>)
    /\ phase = "prove"
    /\ call = [name |-> "new", len |-> 0]
    /\ ret = "Ok"
    /\ out = <<>>
    /\ plog = <<>>
    /\ draws = 0
    /\ dlog = <<>>
    /\ rngFed = <<>>
    /\ vpos = 0
    /\ schnorr = [pc |-> "idle"]
    /\ \E p1 \in Moduli, p2 \in Moduli : \E a \in 0 .. (p1 - 1) :
         swap = [pc |-> "idle", p1 |-> p1, p2 |-> p2, a |-> a, there |-> NoSwap, back |-> NoSwap]

\* swap_field::<F1, F2>(a)
SwapThere ==
    /\ swap.pc = "idle"
    /\ swap' = [swap EXCEPT !.pc = "there", !.there = swap_field(swap.p1, swap.p2, swap.a)]
    /\ UNCHANGED <<io, variant, merlin, native, arthur, phase, call, ret, out, plog,
                   draws, dlog, rngFed, vpos, schnorr>>

\* swap_field::<F2, F1> of the element the first swap returned.
SwapBack ==
    /\ swap.pc = "there" /\ swap.there.res = "Ok"
    /\ swap' = [swap EXCEPT !.pc = "back", !.back = swap_field(swap.p2, swap.p1, swap.there.val)]
    /\ UNCHANGED <<io, variant, merlin, native, arthur, phase, call, ret, out, plog,
                   draws, dlog, rngFed, vpos, schnorr>>

SwapNext ==
    \/ SwapThere
    \/ SwapBack

\* An element moved from one prime field to another and back.
SpecSwap == InitSwap /\ [][SwapNext]_vars

\* ----------------------------------------------------------------- claims

Prover == variant = "prover"

\* The SAFE of the Merlin that runs.
SafeUnderTest == IF Prover THEN merlin.safe ELSE native.safe

AbsorbCalls == {"add_units", "public_units", "absorb_native"}
SqueezeCalls == {"fill_challenge_units", "squeeze_native"}
RatchetCalls == {"ratchet", "native_ratchet"}
RngCalls == {"fill_bytes", "try_fill_bytes", "next_u32", "next_u64"}

\* C1: a verifier built from the same IO pattern over the prover's
\* transcript, mirroring the prover's calls in order, succeeds at every call
\* and is left, after its k-th call, with the SAFE (sponge and op stack) the
\* prover had after its k-th call; where that call is a squeeze it obtains
\* the prover's challenge, and where it reads units it reads the units the
\* prover added.
C1_VerifierMirrorsProver ==
    (phase = "verify" /\ vpos >= 1) =>
        LET e == plog[vpos]
        IN  /\ ret = "Ok"
            /\ arthur.safe = e.safe
            /\ e.name = "fill_challenge_units" => out = e.out
            /\ e.name = "add_units" => out = e.input

C1_Witness ==
    /\ phase = "verify" /\ vpos = 2 /\ Len(plog) = 2
    /\ plog[1].name = "add_units" /\ plog[1].n >= 1
    /\ plog[2].name = "fill_challenge_units" /\ plog[2].n >= 1
    /\ ret = "Ok"

\* The bytes the logged successful add_units calls serialize, in call order.
AddedBytes == Flatten([i \in 1 .. Len(plog) |->
                  IF plog[i].name = "add_units" THEN UnitWrite(plog[i].input) ELSE <<>>])

\* C2: after any sequence of Merlin operations, failing ones and RNG draws
\* included, the transcript is the concatenation, in call order, of the unit
\* serializations of the inputs of the add_units calls that succeeded.
C2_TranscriptIsAddedUnits == Prover => merlin.transcript = AddedBytes

C2_Witness ==
    /\ Prover /\ Len(plog) = 2
    /\ plog[1].name = "public_units" /\ plog[1].n >= 1
    /\ plog[2].name = "add_units" /\ plog[2].n >= 1
    /\ merlin.transcript = UnitWrite(plog[2].input)

\* C3: from any prover state, public_units(x); add_units(y) leaves the SAFE
\* (sponge and op stack) that add_units(x); add_units(y) leaves, with the
\* transcript grown by the serialization of y alone; a successful
\* public_units leaves the transcript as it was.
C3_PublicThenAdd ==
    Prover =>
        \A x \in Inputs, y \in Inputs :
            \A p1 \in public_units(merlin, x), a1 \in add_units(merlin, x) :
                (p1.res = "Ok" /\ a1.res = "Ok") =>
                    /\ p1.m.transcript = merlin.transcript
                    /\ \A p2 \in add_units(p1.m, y), a2 \in add_units(a1.m, y) :
                          (p2.res = "Ok" /\ a2.res = "Ok") =>
                              /\ p2.m.safe = a2.m.safe
                              /\ p2.m.transcript = merlin.transcript \o UnitWrite(y)

C3_Witness ==
    /\ Prover /\ Len(plog) = 2 /\ ret = "Ok"
    /\ plog[1].name = "public_units" /\ plog[1].n >= 1
    /\ call.name = "add_units" /\ call.len >= 1
    /\ merlin.safe.stack = <<>>

\* What one call does to the SAFE stack.
C4_Step ==
    LET before == SafeUnderTest.stack
        after == SafeUnderTest'.stack
        name == call'.name
        n == call'.len
        kind == IF name \in AbsorbCalls THEN "Absorb" ELSE "Squeeze"
    IN  /\ (ret' = "Ok" /\ name \in AbsorbCalls \cup SqueezeCalls) =>
              /\ before # <<>>
              /\ Head(before).kind = kind
              /\ Head(before).n >= n
              /\ after = IF Head(before).n = n THEN Tail(before)
                         ELSE <<[kind |-> kind, n |-> Head(before).n - n]>> \o Tail(before)
        /\ (ret' = "Ok" /\ name \in RatchetCalls) =>
              /\ before # <<>>
              /\ Head(before).kind = "Ratchet"
              /\ after = Tail(before)
        /\ name \in RngCalls => after = before

\* The stack is a tail of the IO pattern, its head possibly partly consumed.
C4_IsTail ==
    \E k \in 0 .. Len(io) :
        LET rest == SubSeq(io, k + 1, Len(io))
        IN  \/ SafeUnderTest.stack = rest
            \/ /\ k >= 1
               /\ \E n \in 1 .. (io[k].n - 1) :
                     SafeUnderTest.stack = <<[kind |-> io[k].kind, n |-> n]>> \o rest

\* C4: the SAFE stack is always a tail of the IO pattern, and every accepted
\* operation moves it along the pattern: an absorb or squeeze of the head's
\* whole count pops the head, one of n < m units leaves Absorb(m - n) /
\* Squeeze(m - n) as the head, a ratchet pops a Ratchet head; the ops behind
\* the head are never touched, and an RNG draw leaves the stack alone.
C4_StackFollowsPattern == [][C4_Step]_vars /\ []C4_IsTail

C4_Witness ==
    /\ call.name \in AbsorbCalls /\ call.len = 1 /\ ret = "Ok"
    /\ io = <<Absorb(2), Ratchet>>
    /\ SafeUnderTest.stack = <<Absorb(1), Ratchet>>

Failed(outcomes) == \A o \in outcomes : o.res = "InvalidIO"

\* C5: once the SAFE stack is empty, every operation that goes through the
\* SAFE returns an error, whatever its argument (the empty one included).
C5_ExhaustedRejectsAll ==
    SafeUnderTest.stack = <<>> =>
        IF Prover
        THEN /\ \A input \in Inputs :
                  Failed(add_units(merlin, input)) /\ Failed(public_units(merlin, input))
             /\ \A n \in SqueezeLens : Failed(fill_challenge_units(merlin, n))
             /\ Failed(ratchet(merlin))
        ELSE /\ \A input \in Inputs : Failed(absorb_native(native, input))
             /\ \A n \in SqueezeLens : Failed(squeeze_native(native, n))
             /\ Failed(native_ratchet(native))

C5_Witness ==
    /\ Prover /\ io = <<Absorb(1)>>
    /\ Len(plog) = 1 /\ plog[1].name = "add_units" /\ plog[1].n = 1
    /\ call.name = "add_units" /\ ret = "InvalidIO"
    /\ merlin.safe.stack = <<>>

\* More units than the head op has left, or a head that is no Absorb.
TooMuch(s, input) == ~HeadIs(s, "Absorb") \/ Len(input) > Head(s.stack).n

\* C6: an absorb of more units than the head Absorb has left fails, also
\* when later Absorb ops of the pattern would cover it, and so does an
\* absorb when the head op is no Absorb.
C6_AbsorbBeyondHeadFails ==
    \A input \in Inputs :
        TooMuch(SafeUnderTest, input) =>
            IF Prover THEN Failed(add_units(merlin, input))
            ELSE Failed(absorb_native(native, input))

C6_Witness ==
    /\ io \in {<<Absorb(1), Ratchet, Absorb(1)>>, <<Absorb(1), Squeeze(1), Absorb(1)>>}
    /\ SafeUnderTest.stack = io
    /\ call.name \in {"add_units", "absorb_native"} /\ call.len = 2
    /\ ret = "InvalidIO"

\* What a rejected add_units or public_units leaves alone.
C7_Step ==
    (Prover /\ call'.name \in {"add_units", "public_units"} /\ ret' # "Ok") =>
        /\ merlin'.transcript = merlin.transcript
        /\ merlin'.rng = merlin.rng
        /\ rngFed' = rngFed

\* C7: a rejected add_units or public_units leaves the transcript as it was
\* and feeds nothing to the CSPRNG sponge.
C7_RejectedAbsorbWritesNothing == [][C7_Step]_vars

C7_Witness ==
    /\ Prover /\ call.name = "public_units" /\ call.len = 2 /\ ret = "InvalidIO"
    /\ merlin.transcript # <<>>

\* C8: every draw on the prover RNG (fill_bytes, next_u32, next_u64,
\* try_fill_bytes) ends with a ratchet of the CSPRNG sponge.
C8_EveryDrawRatchets ==
    (Prover /\ call.name \in RngCalls) => LastOp(merlin.rng.sponge) = "ratchet"

\* What one fill_bytes, next_u32 or next_u64 does to the prover RNG.
C9_Step ==
    (call'.name \in {"fill_bytes", "next_u32", "next_u64"}) =>
        LET n == call'.len
            c == merlin.rng.csrng
            k == IF n < 32 THEN n ELSE 32
            seed == [i \in 1 .. k |-> OsByte(c.seed, c.pos + i)]
            seeded == absorb_unchecked(merlin.rng.sponge, seed)
        IN  /\ call'.name = "next_u32" => n = 4
            /\ call'.name = "next_u64" => n = 8
            /\ merlin'.rng.csrng = [seed |-> c.seed, pos |-> c.pos + k]
            /\ merlin'.rng.sponge = ratchet_unchecked(squeeze_unchecked(seeded, n))
            /\ out' = SqueezeOutput(seeded, n, ByteRange)
            /\ Len(out') = n

\* C9: fill_bytes(dest) draws min(len(dest), 32) bytes from the CSRNG,
\* absorbs exactly those bytes into the CSPRNG sponge, squeezes len(dest)
\* bytes (the output), and ratchets, in this order; next_u32 and next_u64
\* are fill_bytes on 4 and 8 bytes.
C9_FillBytesSteps == [][C9_Step]_vars

C9_Witness ==
    /\ call.name = "fill_bytes" /\ call.len = 33
    /\ merlin.rng.csrng.pos = 32 /\ Len(out) = 33
    /\ rngFed # <<>>

\* The data of every absorb a sponge went through, in order.
Absorbed(sp) == Flatten([j \in 1 .. Len(sp) |-> IF sp[j].op = "absorb" THEN sp[j].data ELSE <<>>])

\* C10: the bytes Merlin's writer fed to the CSPRNG sponge are, in order,
\* the serialization of every unit the main sponge absorbed since its
\* construction (public units included); the CSPRNG sponge absorbed the IO
\* pattern bytes first, and nothing else than these and the CSRNG seeds.
C10_RngAbsorbsWhatSafeAbsorbs ==
    Prover =>
        LET main == Absorbed(merlin.safe.sponge)
            units == SubSeq(main, Len(as_bytes(io)) + 1, Len(main))
            fed == Absorbed(merlin.rng.sponge)
        IN  /\ rngFed = UnitWrite(units)
            /\ SubSeq(fed, 1, Len(as_bytes(io))) = as_bytes(io)
            /\ Len(fed) = Len(as_bytes(io)) + Len(rngFed) + merlin.rng.csrng.pos
            /\ draws = 0 => fed = as_bytes(io) \o rngFed

C10_Witness ==
    /\ Prover /\ Len(plog) = 2
    /\ plog[1].name = "public_units" /\ plog[1].n = 1
    /\ plog[2].name = "add_units" /\ plog[2].n = 1
    /\ Len(rngFed) = 2 * UnitSize /\ Len(merlin.transcript) = UnitSize

\* The outcomes of the logged call e made on the prover m.
Apply(m, e) ==
    CASE e.name = "add_units" -> add_units(m, e.input)
      [] e.name = "public_units" -> public_units(m, e.input)
      [] e.name = "fill_challenge_units" -> fill_challenge_units(m, e.n)
      [] e.name = "ratchet" -> ratchet(m)

\* The prover m after a next_u32 and a try_fill_bytes on its rng().
Drawn(m) == [m EXCEPT !.rng = try_fill_bytes(next_u32(m.rng).rng, 2).rng]

\* A second prover m makes the logged calls from the i-th on, drawing on its
\* rng() before each one when `drawing`, and gets at each call the logged
\* output and the logged SAFE.
RECURSIVE Agrees(_, _, _)
Agrees(m, i, drawing) ==
    \/ i > Len(plog)
    \/ \A o \in Apply(IF drawing THEN Drawn(m) ELSE m, plog[i]) :
          /\ o.res = "Ok"
          /\ o.out = plog[i].out
          /\ o.m.safe = plog[i].safe
          /\ Agrees(o.m, i + 1, drawing)

\* C11: a second prover built from the same IO pattern that makes the same
\* add_units / public_units / ratchet / fill_challenge_units calls with the
\* same inputs gets the same challenge at every squeeze (and the same SAFE
\* after every call), whatever its CSRNG stream is and whether or not it
\* draws on rng() between the calls.
C11_ChallengesIgnoreRng ==
    Prover =>
        \A seed \in OsSeeds, drawing \in BOOLEAN :
            Agrees(Merlin_new(io, [seed |-> seed, pos |-> 0]), 1, drawing)

C11_Witness ==
    /\ Prover /\ merlin.rng.csrng.seed = 1
    /\ Len(dlog) = 1 /\ dlog[1].at = 0 /\ dlog[1].name = "next_u64"
    /\ Len(plog) = 1 /\ plog[1].name = "fill_challenge_units" /\ plog[1].n >= 1
    /\ out = plog[1].out /\ Len(out) >= 1

\* The logged draw e made on the prover RNG r.
Draw(r, e) ==
    CASE e.name = "fill_bytes" -> fill_bytes(r, e.len)
      [] e.name = "try_fill_bytes" -> try_fill_bytes(r, e.len)
      [] e.name = "next_u32" -> next_u32(r)
      [] e.name = "next_u64" -> next_u64(r)

\* A second prover m, having made i of the logged calls and j of the logged
\* draws, makes the rest in the logged order: every draw returns the logged
\* bytes, every call succeeds with the logged output, and it ends in the
\* state of the first.
RECURSIVE Replays(_, _, _)
Replays(m, i, j) ==
    IF j < Len(dlog) /\ dlog[j + 1].at = i
    THEN LET d == Draw(m.rng, dlog[j + 1])
         IN  /\ d.out = dlog[j + 1].out
             /\ Replays([m EXCEPT !.rng = d.rng], i, j + 1)
    ELSE IF i < Len(plog)
    THEN \A o \in Apply(m, plog[i + 1]) :
            /\ o.res = "Ok"
            /\ o.out = plog[i + 1].out
            /\ Replays(o.m, i + 1, j)
    ELSE /\ m.transcript = merlin.transcript
         /\ m.rng = merlin.rng
         /\ m.safe = merlin.safe

C17_Step ==
    Len(dlog') > Len(dlog) =>
        /\ call'.name \in RngCalls
        /\ ret' = "Ok"
        /\ merlin'.safe = merlin.safe
        /\ merlin'.transcript = merlin.transcript
        /\ plog' = plog /\ rngFed' = rngFed

\* Every kind of draw returns its bytes, whatever the SAFE stack holds.
C17_Available ==
    Prover =>
        /\ \A n \in DestLens : Len(fill_bytes(merlin.rng, n).out) = n
        /\ \A n \in TryLens : Len(try_fill_bytes(merlin.rng, n).out) = n
        /\ Len(next_u32(merlin.rng).out) = U32Bytes
        /\ Len(next_u64(merlin.rng).out) = U64Bytes

\* C17: draws on rng() (fill_bytes, next_u32, next_u64, try_fill_bytes) never
\* fail, can be made in every state, an empty or exhausted IO pattern
\* included, take no op off the SAFE stack and leave the main sponge and the
\* transcript as they were: they change the CSPRNG sponge and the CSRNG only.
C17_RngOutsidePattern == [][C17_Step]_vars /\ []C17_Available

C17_Witness ==
    /\ Prover /\ io = <<Absorb(1)>>
    /\ Len(plog) = 1 /\ plog[1].name = "add_units" /\ plog[1].n = 1
    /\ merlin.safe.stack = <<>>
    /\ Len(dlog) = 1 /\ dlog[1].at = 1 /\ dlog[1].name = "try_fill_bytes"
    /\ call.name = "try_fill_bytes" /\ ret = "Ok" /\ Len(out) = 2

\* add_units(a); add_units(b) and add_units(a || b) on the prover m are both
\* accepted and leave the same prover.
BothAccepted(m, a, b) ==
    /\ \A o \in add_units(m, a \o b) : o.res = "Ok"
    /\ \A o1 \in add_units(m, a) :
          /\ o1.res = "Ok"
          /\ \A o2 \in add_units(o1.m, b) : o2.res = "Ok"

SameEnd(m, a, b) ==
    \A o \in add_units(m, a \o b), o1 \in add_units(m, a) :
        \A o2 \in add_units(o1.m, b) :
            (o.res = "Ok" /\ o1.res = "Ok" /\ o2.res = "Ok") =>
                /\ o2.m.transcript = o.m.transcript
                /\ o2.m.safe = o.m.safe
                /\ o2.m.rng = o.m.rng

FiveAndFive == IOBuild(<<Absorb(5), Absorb(5)>>)

\* C13: a pattern declaring absorb 5 then absorb 5 accepts one add_units of
\* 10 units and two of 5, and from any prover state add_units(a);
\* add_units(b) and add_units(a || b), where both are accepted, end with the
\* same transcript, the same main sponge and the same op stack.
C13_MergingLaw ==
    Prover =>
        /\ call.name = "new" =>
              /\ LET m == Merlin_new(FiveAndFive, merlin.rng.csrng)
                     a == <<1, 0, 1, 1, 0>>
                     b == <<0, 0, 1, 0, 1>>
                 IN  BothAccepted(m, a, b) /\ SameEnd(m, a, b)
              /\ io = IOBuild(<<Absorb(1), Absorb(1)>>) =>
                    \A a \in {<<0>>, <<1>>}, b \in {<<0>>, <<1>>} : BothAccepted(merlin, a, b)
        /\ \A a \in Inputs, b \in Inputs : SameEnd(merlin, a, b)

C13_Witness ==
    /\ Prover /\ io = IOBuild(<<Absorb(1), Absorb(1)>>)
    /\ Len(plog) = 2
    /\ plog[1].name = "add_units" /\ plog[1].input = <<1>>
    /\ plog[2].name = "add_units" /\ plog[2].input = <<0>>
    /\ merlin.safe.stack = <<>>
    /\ \E o \in add_units(Merlin_new(io, [seed |-> 0, pos |-> 0]), <<1, 0>>) :
          o.res = "Ok" /\ o.m.transcript = merlin.transcript /\ o.m.safe = merlin.safe

\* The outcome o of a call on the prover m touched nothing but the SAFE.
OnlySafe(m, o) ==
    /\ o.m.transcript = m.transcript
    /\ o.m.rng = m.rng
    /\ o.fed = <<>>

\* C14: ratchet and fill_challenge_units, whether they succeed or fail,
\* leave the transcript, the CSPRNG sponge and the CSRNG as they were.
C14_SqueezeAndRatchetFrame ==
    Prover =>
        /\ \A o \in ratchet(merlin) : OnlySafe(merlin, o)
        /\ \A n \in SqueezeLens : \A o \in fill_challenge_units(merlin, n) :
              OnlySafe(merlin, o)

C14_Witness ==
    /\ Prover /\ merlin.transcript # <<>>
    /\ Len(plog) = 2 /\ plog[2].name = "fill_challenge_units" /\ plog[2].n >= 1
    /\ call.name = "fill_challenge_units" /\ ret = "Ok" /\ Len(out) >= 1
    /\ \E o \in ratchet(merlin) : o.res # "Ok"

\* The op stack that is left when main is at the line pc.
SchnorrTail(pc) ==
    CASE pc \in {"public_points", "arthur.public_points"} -> io
      [] pc \in {"ratchet", "arthur.ratchet"} -> SubSeq(io, 2, Len(io))
      [] pc \in {"rand", "add_points", "next_points"} -> SubSeq(io, 3, Len(io))
      [] pc \in {"challenge_scalars", "arthur.challenge_scalars"} -> SubSeq(io, 4, Len(io))
      [] pc \in {"add_scalars", "next_scalars"} -> SubSeq(io, 5, Len(io))
      [] OTHER -> <<>>

ProverLines == {"public_points", "ratchet", "rand", "add_points", "challenge_scalars", "add_scalars"}

\* C15: when verifying a proof whose commitment K was tampered with fails,
\* verify returns SerializationError or InvalidProof; an error met while
\* reading K, c or r is what it returns, never turned into a panic. (In a
\* group this small a tampered K can also satisfy the equation by chance.)
C15_TamperedKReturnsError ==
    (schnorr.tampered /\ schnorr.pc = "done" /\ schnorr.result # "Ok") =>
        /\ schnorr.result \in {"SerializationError", "InvalidProof"}
        /\ schnorr.error # "none" => schnorr.result = schnorr.error

\* C16: with an honest proof the example's prover and verifier go through
\* the IO pattern without any error, each op stack following the pattern and
\* ending empty; the proof is the encoding of K followed by that of r, and
\* the verifier reads K and r back, squeezes the prover's challenge and
\* accepts.
C16_SchnorrTraversal ==
    ~schnorr.tampered =>
        /\ ret = "Ok" /\ schnorr.error = "none" /\ schnorr.result # "panic"
        /\ IF schnorr.pc \in ProverLines
           THEN merlin.safe.stack = SchnorrTail(schnorr.pc)
           ELSE /\ merlin.safe.stack = <<>>
                /\ merlin.transcript = UnitWrite(Encode(schnorr.K, PointUnits)
                                                   \o Encode(schnorr.r, ScalarUnits))
        /\ schnorr.pc \notin ProverLines \cup {"to_arthur"} =>
              /\ arthur.transcript = merlin.transcript
              /\ arthur.safe.stack = SchnorrTail(schnorr.pc)
        /\ schnorr.pc \in {"equation", "done"} =>
              /\ arthur.cursor = Len(arthur.transcript)
              /\ arthur.safe = merlin.safe
              /\ schnorr.vK = schnorr.K /\ schnorr.vc = schnorr.c /\ schnorr.vr = schnorr.r
        /\ schnorr.pc = "done" => schnorr.result = "Ok"

C16_Witness ==
    /\ schnorr.pc = "done" /\ ~schnorr.tampered /\ schnorr.result = "Ok"
    /\ io = <<Absorb(2 * PointUnits), Ratchet, Absorb(PointUnits),
              Squeeze(ChallengeUnits), Absorb(ScalarUnits)>>
    /\ schnorr.x # 0 /\ schnorr.k # 0 /\ schnorr.c # 0
    /\ Len(merlin.transcript) = (PointUnits + ScalarUnits) * UnitSize
    /\ merlin.safe.stack = <<>> /\ arthur.safe.stack = <<>>

\* The units the head Absorb op has left; none when the head is no Absorb.
Room(s) == IF HeadIs(s, "Absorb") THEN Head(s.stack).n ELSE 0

ScalarsBytes(elems) == [i \in 1 .. Len(elems) |-> Scalar_as_bytes(elems[i])]

PointsBytes(elems) == [i \in 1 .. Len(elems) |-> compress_as_bytes(elems[i])]

\* The bridge outcomes `outcomes` for the encoded elements: all accepted,
\* one absorb each, ending as one absorb_native of their concatenation does.
AsOneAbsorb(outcomes, encoded) ==
    LET k == Len(encoded)
        room == Room(native.safe)
    IN  \A o \in outcomes :
            /\ o.res = "Ok"
            /\ o.done = k
            /\ \A one \in absorb_native(native, Flatten(encoded)) :
                  one.res = "Ok" /\ o.m = one.m
            /\ o.m.safe.stack =
                  IF k * ElemBytes = room THEN Tail(native.safe.stack)
                  ELSE <<Absorb(room - k * ElemBytes)>> \o Tail(native.safe.stack)

\* C18: with a head op Absorb(32 * count), absorb_scalars / absorb_points
\* of k <= count elements succeeds with k absorbs of 32 bytes and leaves the
\* sponge and the op stack as one absorb_native of the 32 * k concatenated
\* bytes does: the head shrunk by 32 * k, popped when k = count.
C18_BridgeIsOneAbsorb ==
    (variant = "native" /\ HeadIs(native.safe, "Absorb")) =>
        \A elems \in Elements :
            Len(elems) * ElemBytes <= Room(native.safe) =>
                /\ AsOneAbsorb(absorb_scalars(native, elems), ScalarsBytes(elems))
                /\ AsOneAbsorb(absorb_points(native, elems), PointsBytes(elems))

C18_Witness ==
    /\ variant = "native" /\ io = <<Absorb(3 * ElemBytes)>>
    /\ call.name = "absorb_scalars" /\ call.len = 2 /\ ret = "Ok"
    /\ native.safe.stack = <<Absorb(ElemBytes)>>
    /\ LastOp(native.safe.sponge) = "absorb"
    /\ Len(native.safe.sponge[Len(native.safe.sponge)].data) = 2 * ElemBytes

\* The bridge outcomes `outcomes` for the encoded elements, more than the
\* head has room for: the error of the first rejected element, the ones
\* before it absorbed and taken off the head, none after it submitted.
FailsPartWay(outcomes, encoded) ==
    LET fit == Room(native.safe) \div ElemBytes
        absorbed == Flatten(SubSeq(encoded, 1, fit))
    IN  \A o \in outcomes :
            /\ o.res = "InvalidIO"
            /\ o.done = fit + 1
            /\ o.m.safe.sponge = absorb_unchecked(native.safe.sponge, absorbed)
            /\ o.m.safe.stack \in
                  {<<>>, IF fit = 0 THEN native.safe.stack ELSE Tail(native.safe.stack)}

\* C19: absorb_scalars / absorb_points with more elements than the head
\* Absorb has room for (or with a head that is no Absorb) returns the error
\* of the first rejected element; the elements before it are absorbed into
\* the sponge and taken off the head op, and none after it is submitted.
C19_BridgeFailsPartWay ==
    variant = "native" =>
        \A elems \in Elements :
            Len(elems) * ElemBytes > Room(native.safe) =>
                /\ FailsPartWay(absorb_scalars(native, elems), ScalarsBytes(elems))
                /\ FailsPartWay(absorb_points(native, elems), PointsBytes(elems))

C19_Witness ==
    /\ variant = "native" /\ io = <<Absorb(2 * ElemBytes), Ratchet>>
    /\ call.name = "absorb_points" /\ call.len = 3 /\ ret = "InvalidIO"
    /\ native.safe.stack = <<Ratchet>>
    /\ LastOp(native.safe.sponge) = "absorb"
    /\ Len(native.safe.sponge[Len(native.safe.sponge)].data) = 2 * ElemBytes

\* C20: swap_field from F1 to F2 on the element of canonical value a returns
\* Ok with the F2 element of value a exactly when a < p2 and
\* SerializationError otherwise; after a success, swapping back from F2 to
\* F1 returns the original element.
C20_SwapFieldKeepsValue ==
    /\ swap.pc \in {"there", "back"} =>
          IF swap.a < swap.p2
          THEN swap.there = [res |-> "Ok", val |-> swap.a]
          ELSE swap.there.res = "SerializationError"
    /\ swap.pc = "back" => swap.back = [res |-> "Ok", val |-> swap.a]

C20_Witness ==
    /\ swap.pc = "back" /\ swap.p1 = 263 /\ swap.p2 = 257 /\ swap.a = 256
    /\ swap.there.res = "Ok" /\ swap.back.res = "Ok"

====
